---- MODULE Spec2Model ----
(***************************************************************************)
(* MetaPromptingFramework: the template store (src/src/components/store.py)*)
(* and the prompt executor (src/src/components/prompt_executor.py,         *)
(* src/main.py) as state machines over a file system, a YAML text format   *)
(* and a remote model capability.                                          *)
(***************************************************************************)
EXTENDS Naturals, Sequences, FiniteSets, TLC

(***************************************************************************)
(* Python values.  A value is a record tagged by its Python type.  A dict  *)
(* is a set of key/value pairs (dict equality ignores order), a `ref' is a *)
(* reference to the container `up' levels above it (object identity: how a *)
(* self-referential structure is written down), an `obj' is an object the  *)
(* YAML representer cannot reduce (a lock, an open file).                  *)
(***************************************************************************)
None == [t |-> "null", s |-> "null"]
PyTrue == [t |-> "bool", s |-> "true"]
PyFalse == [t |-> "bool", s |-> "false"]
Str(s) == [t |-> "str", s |-> s]
Int(s) == [t |-> "int", s |-> s]
List(items) == [t |-> "list", items |-> items]
Tuple(items) == [t |-> "tuple", items |-> items]
Dict(fields) == [t |-> "dict", fields |-> fields]
Pair(k, v) == [k |-> Str(k), v |-> v]
Ref(n) == [t |-> "ref", up |-> n]
Obj == [t |-> "obj", s |-> "lock"]

\* The order yaml.dump (sort_keys=True) writes string keys in.
KeyOrder == <<"a", "b", "content", "role">>

(***************************************************************************)
(* YAML text.  A document is a sequence of tokens in document order, each  *)
(* with its nesting depth d (block indentation), its kind k, its text or   *)
(* tag s and its anchor a (0: none; an alias names the anchor it refers    *)
(* to).  The children of a collection are the tokens one level deeper that *)
(* follow it; a mapping's children alternate key, value.                   *)
(***************************************************************************)
Tok(d, k, s, a) == [d |-> d, k |-> k, s |-> s, a |-> a]

\* The implicit resolver: the type a plain (unquoted) scalar is read as.
Resolve(s) ==
  CASE s \in {"null", "~", ""} -> "null"
    [] s \in {"true", "false"} -> "bool"
    [] s \in {"0", "1", "2"} -> "int"
    [] OTHER -> "str"

RECURSIVE RefsUp(_, _)
\* Whether x holds a reference to the container h levels above x.
RefsUp(x, h) ==
  CASE x.t = "ref" -> x.up = h
    [] x.t \in {"list", "tuple"} -> \E i \in 1..Len(x.items) : RefsUp(x.items[i], h + 1)
    [] x.t = "dict" -> \E p \in x.fields : RefsUp(p.v, h + 1)
    [] OTHER -> FALSE

\* The serializer gives an anchor to a node that is referred to again.
AnchorOf(v, d) == IF RefsUp(v, 0) THEN d + 1 ELSE 0

\* Python's recursion limit, scaled to the depth of the values stored here.
RecursionLimit == 6

\* represent_str: a string the resolver would read as something else is quoted.
RepresentStr(d, s) ==
  <<Tok(d, IF Resolve(s) = "str" THEN "plain" ELSE "quoted", s, 0)>>

RECURSIVE Emit(_, _, _), EmitItems(_, _, _, _), EmitPairs(_, _, _, _)

\* A faulty variant of RepresentAlias: a representer that keeps no table of the objects
\* it has represented represents the referenced container again.
RepresentAliasNoTable(d, up, stack) ==
  Emit(stack[(Len(stack) - up) + 1], d, SubSeq(stack, 1, Len(stack) - up))

\* represent_data on an object already in represented_objects: an alias to the
\* node made for it.  stack holds the containers being represented, outermost first.
RepresentAlias(d, up, stack) == <<Tok(d, "alias", "", (d - up) + 1)>>

\* represent_data: the node for v, at nesting depth d.
Emit(v, d, stack) ==
  IF d > RecursionLimit THEN <<Tok(d, "error", "RecursionError", 0)>>
  ELSE CASE v.t \in {"null", "bool", "int"} -> <<Tok(d, "plain", v.s, 0)>>
         [] v.t = "str" -> RepresentStr(d, v.s)
         [] v.t = "list" ->
              <<Tok(d, "seq", "", AnchorOf(v, d))>> \o EmitItems(v.items, 1, d + 1, Append(stack, v))
         [] v.t = "tuple" ->
              <<Tok(d, "seq", "python/tuple", AnchorOf(v, d))>>
                \o EmitItems(v.items, 1, d + 1, Append(stack, v))
         [] v.t = "dict" ->
              <<Tok(d, "map", "", AnchorOf(v, d))>> \o EmitPairs(v.fields, 1, d + 1, Append(stack, v))
         [] v.t = "ref" -> RepresentAlias(d, v.up, stack)
         [] OTHER -> <<Tok(d, "error", "TypeError", 0)>>

EmitItems(items, i, d, stack) ==
  IF i > Len(items) THEN <<>>
  ELSE Emit(items[i], d, stack) \o EmitItems(items, i + 1, d, stack)

EmitPairs(fields, j, d, stack) ==
  IF j > Len(KeyOrder) THEN <<>>
  ELSE LET here == {p \in fields : p.k = Str(KeyOrder[j])}
       IN  (IF here = {} THEN <<>>
            ELSE LET p == CHOOSE q \in here : TRUE
                 IN  Emit(p.k, d, stack) \o Emit(p.v, d, stack))
           \o EmitPairs(fields, j + 1, d, stack)

\* yaml.dump(data, f, default_flow_style=False): the document, or the exception
\* the representer raises before anything is written.
YamlDump(v) ==
  LET toks == Emit(v, 0, <<>>)
      bad == {i \in 1..Len(toks) : toks[i].k = "error"}
  IN  IF bad = {} THEN [ok |-> TRUE, text |-> toks, exc |-> "none"]
      ELSE [ok |-> FALSE, text |-> <<>>, exc |-> toks[CHOOSE i \in bad : TRUE].s]

\* A scalar token as SafeConstructor builds it.
ConstructScalar(tok) ==
  IF tok.k = "quoted" THEN Str(tok.s)
  ELSE CASE Resolve(tok.s) = "null" -> None
         [] Resolve(tok.s) = "bool" -> [t |-> "bool", s |-> tok.s]
         [] Resolve(tok.s) = "int" -> Int(tok.s)
         [] OTHER -> Str(tok.s)

ParseErr == [ok |-> FALSE, v |-> None, n |-> 0]
ParseOk(v, n) == [ok |-> TRUE, v |-> v, n |-> n]

\* A later pair with the same key replaces the earlier one.
PutPair(fields, k, v) == {p \in fields : p.k # k} \cup {[k |-> k, v |-> v]}

RECURSIVE ParseNode(_, _, _), ParseItems(_, _, _, _), ParsePairs(_, _, _, _)
\* The node at toks[i], whose ancestors' anchors are anc (so its depth is Len(anc)).
ParseNode(toks, i, anc) ==
  LET tok == toks[i]
      d == Len(anc)
      deeper == i + 1 <= Len(toks) /\ toks[i + 1].d > d
  IN  CASE tok.k \in {"plain", "quoted"} ->
             IF deeper THEN ParseErr ELSE ParseOk(ConstructScalar(tok), i + 1)
        [] tok.k = "alias" ->
             IF deeper \/ tok.a \notin 1..d THEN ParseErr
             ELSE IF anc[tok.a] # tok.a THEN ParseErr
             ELSE ParseOk(Ref((d - tok.a) + 1), i + 1)
        [] tok.k = "seq" ->
             LET r == ParseItems(toks, i + 1, Append(anc, tok.a), <<>>)
             IN  IF ~r.ok \/ tok.s # "" THEN ParseErr ELSE ParseOk(List(r.v), r.n)
        [] tok.k = "map" ->
             LET r == ParsePairs(toks, i + 1, Append(anc, tok.a), {})
             IN  IF ~r.ok \/ tok.s # "" THEN ParseErr ELSE ParseOk(Dict(r.v), r.n)
        [] OTHER -> ParseErr

ParseItems(toks, i, anc, acc) ==
  IF i > Len(toks) THEN ParseOk(acc, i)
  ELSE IF toks[i].d < Len(anc) THEN ParseOk(acc, i)
  ELSE IF toks[i].d > Len(anc) THEN ParseErr
  ELSE LET r == ParseNode(toks, i, anc)
       IN  IF r.ok THEN ParseItems(toks, r.n, anc, Append(acc, r.v)) ELSE ParseErr

ParsePairs(toks, i, anc, acc) ==
  IF i > Len(toks) THEN ParseOk(acc, i)
  ELSE IF toks[i].d < Len(anc) THEN ParseOk(acc, i)
  ELSE IF toks[i].d > Len(anc) \/ toks[i].k \notin {"plain", "quoted"} THEN ParseErr
  ELSE LET k == ConstructScalar(toks[i])
       IN  IF i + 1 > Len(toks) THEN ParseOk(PutPair(acc, k, None), i + 1)
           ELSE IF toks[i + 1].d < Len(anc) THEN ParseOk(PutPair(acc, k, None), i + 1)
           ELSE IF toks[i + 1].d > Len(anc) THEN ParseErr
           ELSE LET r == ParseNode(toks, i + 1, anc)
                IN  IF r.ok THEN ParsePairs(toks, r.n, anc, PutPair(acc, k, r.v))
                    ELSE ParseErr

\* yaml.safe_load(f): the value of the document (None for an empty stream), or a
\* YAMLError: malformed text, an undefined alias, a tag SafeLoader does not know.
SafeLoad(toks) ==
  IF toks = <<>> THEN ParseOk(None, 1)
  ELSE IF toks[1].d # 0 THEN ParseErr
  ELSE LET r == ParseNode(toks, 1, <<>>)
       IN  IF r.ok /\ r.n = Len(toks) + 1 THEN r ELSE ParseErr

(***************************************************************************)
(* The values, names and directories the operations are called with.       *)
(***************************************************************************)
MaxLen == 2

SampleItems == <<Str("x"), Str("1"), Int("1"), PyTrue, None, Str("")>>
ListOf(n) == List(SubSeq(SampleItems, 1, n))

\* Test 1's template.
Greeting ==
  Dict({Pair("role", Str("system")), Pair("content", Str("You are a helpful assistant."))})
\* Test 5's template: template_data_5["a"] = template_data_5.
Circular == Dict({Pair("a", Ref(1))})
WithTuple == Dict({Pair("a", Tuple(<<Str("x")>>))})
WithObject == Dict({Pair("a", Obj)})

Data ==
  {Greeting, Circular, WithTuple, WithObject}
    \cup {Dict({Pair("a", ListOf(n))}) : n \in 0..MaxLen}

Names == {"greeting"}
DefaultDir == "templates"
TemplateDirs == {DefaultDir, "new/sub"}
AllDirs == {DefaultDir, "new", "new/sub"}
\* The missing parents that mkdir(parents=True) creates on the way to dir.
Ancestors(dir) == IF dir = "new/sub" THEN {"new"} ELSE {}
Paths == TemplateDirs \X Names

\* The document yaml.dump writes for each value, computed once.
DumpTable == [v \in Data |-> YamlDump(v)]

RECURSIVE HasObject(_)
HasObject(v) ==
  CASE v.t = "obj" -> TRUE
    [] v.t \in {"list", "tuple"} -> \E i \in 1..Len(v.items) : HasObject(v.items[i])
    [] v.t = "dict" -> \E p \in v.fields : HasObject(p.v)
    [] OTHER -> FALSE

RECURSIVE HasTuple(_)
HasTuple(v) ==
  CASE v.t = "tuple" -> TRUE
    [] v.t = "list" -> \E i \in 1..Len(v.items) : HasTuple(v.items[i])
    [] v.t = "dict" -> \E p \in v.fields : HasTuple(p.v)
    [] OTHER -> FALSE

IsCyclic(v) == v.t \in {"list", "tuple", "dict"} /\ RefsUp(v, 0)

(***************************************************************************)
(* State: the file system (the directories that exist, each template       *)
(* file's text), and what the last call did: the value it returned, the    *)
(* exception that left it (if any), and its arguments.                     *)
(***************************************************************************)
VARIABLES dirs, files, ret, raised, last

\* A process that sends prompts: its entry point, the GOOGLE_API_KEY it resolves,
\* where it is, its exit status, the requests made of the remote model so far and
\* the last execute_prompt call.
VARIABLES proc, cred, pc, exit, sent, call

\* Two concurrent store_template calls on one template: where each is, how much of
\* its document it has written, its data and result; and which call opened the file
\* last and whether the other has written since.
VARIABLES wpc, woff, wdata, wret, lastOpen, foreign

storeVars == <<dirs, files, last>>
execVars == <<proc, cred, pc, exit, sent, call>>
concVars == <<wpc, woff, wdata, wret, lastOpen, foreign>>
vars == <<dirs, files, ret, raised, last, proc, cred, pc, exit, sent, call,
          wpc, woff, wdata, wret, lastOpen, foreign>>

NoFile == [exists |-> FALSE, text |-> <<>>]
FileOf(text) == [exists |-> TRUE, text |-> text]

NoCall ==
  [op |-> "none", dir |-> DefaultDir, name |-> "greeting", data |-> None,
   fault |-> "none", exc |-> "none", at |-> "none", over |-> FALSE, created |-> {},
   log |-> "none"]

NoExecute == [op |-> "none", prompt |-> "", model |-> "", outcome |-> "none", at |-> "none"]

Writers == {1, 2}

\* No process that sends prompts is running.
ExecIdle ==
  /\ proc = "none" /\ cred = "set" /\ pc = "none" /\ exit = 0 /\ sent = 0
  /\ call = NoExecute

\* No concurrent store is under way.
ConcIdle ==
  /\ wpc = [w \in Writers |-> "idle"]
  /\ woff = [w \in Writers |-> 0]
  /\ wdata = [w \in Writers |-> None]
  /\ wret = [w \in Writers |-> None]
  /\ lastOpen = 0
  /\ foreign = FALSE

Init ==
  /\ dirs \in {{}, {DefaultDir}}
  /\ files = [p \in Paths |-> NoFile]
  /\ ret = None
  /\ raised = "none"
  /\ last = NoCall
  /\ ExecIdle
  /\ ConcIdle

(***************************************************************************)
(* store_template                                                          *)
(***************************************************************************)
\* A faulty variant of MakeDirs: mkdir without parents=True fails on a missing parent.
MakeDirsNoParents(ds, dir) ==
  IF Ancestors(dir) \subseteq ds THEN [ok |-> TRUE, dirs |-> ds \cup {dir}]
  ELSE [ok |-> FALSE, dirs |-> ds]

\* template_path.mkdir(parents=True, exist_ok=True)
MakeDirs(ds, dir) == [ok |-> TRUE, dirs |-> (ds \cup Ancestors(dir)) \cup {dir}]

\* A faulty variant of OpenForWrite: mode 'r+'/'a' in place of 'w', an existing file is
\* not truncated.
OpenForWriteNoTruncate(fs, p, fails) ==
  IF fails \/ fs[p].exists THEN fs ELSE [fs EXCEPT ![p] = FileOf(<<>>)]

\* A faulty variant of OpenForWrite: the file is created empty although the open fails.
OpenForWriteTruncatesFirst(fs, p, fails) == [fs EXCEPT ![p] = FileOf(<<>>)]

\* open(file_path, 'w'): creates the file or truncates it; a failed open leaves
\* the file as it was.
OpenForWrite(fs, p, fails) == IF fails THEN fs ELSE [fs EXCEPT ![p] = FileOf(<<>>)]

\* A faulty variant of StoreHandler: no `except Exception' clause.
StoreHandlerNoCatchAll(exc) ==
  IF exc \in {"IOError", "YAMLError"}
  THEN [ret |-> PyFalse, raised |-> "none", log |-> "error"]
  ELSE [ret |-> None, raised |-> exc, log |-> "none"]

\* except IOError / except yaml.YAMLError / except Exception: log, return False.
StoreHandler(exc) ==
  CASE exc = "IOError" -> [ret |-> PyFalse, raised |-> "none", log |-> "error"]
    [] exc = "YAMLError" -> [ret |-> PyFalse, raised |-> "none", log |-> "error"]
    [] OTHER -> [ret |-> PyFalse, raised |-> "none", log |-> "error"]

StoreFaults == {"none", "mkdir", "open", "dump", "write"}

\* The try block of store_template, step by step, with the environment failing
\* the step `fault' names: the file system it leaves, the exception that ends it
\* (exc) and the step that raised it (at).
StoreBody(ds, fs, data, dir, name, fault) ==
  LET p == <<dir, name>>
      made == MakeDirs(ds, dir)
      doc == DumpTable[data]
  IN  IF fault = "mkdir"
      THEN {[dirs |-> d2, files |-> fs, exc |-> "IOError", at |-> "mkdir"] :
              d2 \in {ds, ds \cup Ancestors(dir)}}
      ELSE IF ~made.ok
      THEN {[dirs |-> made.dirs, files |-> fs, exc |-> "IOError", at |-> "mkdir"]}
      ELSE IF fault = "open"
      THEN {[dirs |-> made.dirs, files |-> OpenForWrite(fs, p, TRUE),
             exc |-> "IOError", at |-> "open"]}
      ELSE LET opened == OpenForWrite(fs, p, FALSE)
           IN  IF ~doc.ok
               THEN {[dirs |-> made.dirs, files |-> opened, exc |-> doc.exc, at |-> "dump"]}
               ELSE IF fault = "dump"
               THEN {[dirs |-> made.dirs, files |-> opened, exc |-> "YAMLError", at |-> "dump"]}
               ELSE IF fault = "write"
               THEN {[dirs |-> made.dirs,
                      files |-> [opened EXCEPT ![p] = FileOf(SubSeq(doc.text, 1, k))],
                      exc |-> "IOError", at |-> "write"] : k \in 0..(Len(doc.text) - 1)}
               ELSE {[dirs |-> made.dirs, files |-> [opened EXCEPT ![p] = FileOf(doc.text)],
                      exc |-> "none", at |-> "none"]}

Store(data, name, dir, fault) ==
  \E o \in StoreBody(dirs, files, data, dir, name, fault) :
    LET h == IF o.exc = "none"
             THEN [ret |-> PyTrue, raised |-> "none", log |-> "info"]
             ELSE StoreHandler(o.exc)
    IN  /\ dirs' = o.dirs
        /\ files' = o.files
        /\ ret' = h.ret
        /\ raised' = h.raised
        /\ last' = [op |-> "store", dir |-> dir, name |-> name, data |-> data,
                    fault |-> fault, exc |-> o.exc, at |-> o.at,
                    over |-> (last.op = "store" /\ ret = PyTrue
                              /\ last.dir = dir /\ last.name = name),
                    created |-> o.dirs \ dirs, log |-> h.log]
        /\ UNCHANGED <<execVars, concVars>>

(***************************************************************************)
(* load_template                                                           *)
(***************************************************************************)
\* except IOError / except yaml.YAMLError / except Exception: log, return None.
LoadHandler(exc) ==
  CASE exc = "IOError" -> [ret |-> None, raised |-> "none", log |-> "error"]
    [] exc = "YAMLError" -> [ret |-> None, raised |-> "none", log |-> "error"]
    [] OTHER -> [ret |-> None, raised |-> "none", log |-> "error"]

LoadFaults == {"none", "path", "exists", "open", "read", "decode"}

\* load_template, with the environment failing the step `fault' names.  The path
\* is built and its existence checked before the try block is entered.
LoadBody(ds, fs, dir, name, fault) ==
  LET p == <<dir, name>>
      parsed == SafeLoad(fs[p].text)
  IN  IF fault = "path"
      THEN [ret |-> None, raised |-> "TypeError", log |-> "none", exc |-> "TypeError", at |-> "path"]
      ELSE IF fault = "exists"
      THEN [ret |-> None, raised |-> "PermissionError", log |-> "none",
            exc |-> "PermissionError", at |-> "exists"]
      ELSE IF ~(dir \in ds /\ fs[p].exists)
      THEN [ret |-> None, raised |-> "none", log |-> "warning", exc |-> "none", at |-> "missing"]
      ELSE IF fault \in {"open", "read"}
      THEN LoadHandler("IOError") @@ [exc |-> "IOError", at |-> fault]
      ELSE IF fault = "decode"
      THEN LoadHandler("UnicodeDecodeError") @@ [exc |-> "UnicodeDecodeError", at |-> "read"]
      ELSE IF ~parsed.ok
      THEN LoadHandler("YAMLError") @@ [exc |-> "YAMLError", at |-> "parse"]
      ELSE [ret |-> parsed.v, raised |-> "none", log |-> "info", exc |-> "none", at |-> "none"]

Load(name, dir, fault) ==
  LET o == LoadBody(dirs, files, dir, name, fault)
  IN  /\ ret' = o.ret
      /\ raised' = o.raised
      /\ last' = [op |-> "load", dir |-> dir, name |-> name, data |-> None,
                  fault |-> fault, exc |-> o.exc, at |-> o.at, over |-> FALSE,
                  created |-> {}, log |-> o.log]
      /\ UNCHANGED <<dirs, files, execVars, concVars>>

(***************************************************************************)
(* The test harness's own file operations.                                 *)
(***************************************************************************)
\* Test 4's file: "role: system\ncontent: - this is not valid yaml".
InvalidYaml ==
  <<Tok(0, "map", "", 0), Tok(1, "plain", "role", 0), Tok(1, "plain", "system", 0),
    Tok(1, "plain", "content", 0), Tok(1, "invalid", "- this is not valid yaml", 0)>>

\* with open(invalid_yaml_path, 'w') as f: f.write(...)
WriteInvalidYaml(name, dir) ==
  /\ dir \in dirs
  /\ files' = [files EXCEPT ![<<dir, name>>] = FileOf(InvalidYaml)]
  /\ ret' = None
  /\ raised' = "none"
  /\ last' = [NoCall EXCEPT !.op = "write", !.dir = dir, !.name = name]
  /\ UNCHANGED <<dirs, execVars, concVars>>

\* shutil.rmtree(d, ignore_errors=True) for a directory that exists.
RemoveTree(dir) ==
  /\ dir \in dirs
  /\ dirs' = dirs \ ({dir} \cup {c \in AllDirs : dir \in Ancestors(c)})
  /\ files' = [p \in Paths |-> IF p[1] \in dirs' THEN files[p] ELSE NoFile]
  /\ ret' = None
  /\ raised' = "none"
  /\ last' = [NoCall EXCEPT !.op = "rmtree", !.dir = IF dir \in TemplateDirs THEN dir ELSE "new/sub"]
  /\ UNCHANGED <<execVars, concVars>>

Next ==
  \/ \E data \in Data, name \in Names, dir \in TemplateDirs, fault \in StoreFaults :
       Store(data, name, dir, fault)
  \/ \E name \in Names, dir \in TemplateDirs, fault \in LoadFaults : Load(name, dir, fault)
  \/ \E name \in Names, dir \in TemplateDirs : WriteInvalidYaml(name, dir)
  \/ \E dir \in AllDirs : RemoveTree(dir)

\* Sequential use of the template store.
Spec == Init /\ [][Next]_vars

(***************************************************************************)
(* Prompt execution: the component (prompt_executor.py) and main.py.       *)
(***************************************************************************)
MaxSent == 2

Prompts == {"", "Hello", "Explain the concept of a meta-prompt in one sentence."}
Models == {"gemini-2.5-flash", "gemini-2.5-pro"}
EntryPoints == {"prompt_executor", "main"}
\* os.getenv("GOOGLE_API_KEY"): unset, set to the empty string, or set.
Credentials == {"absent", "empty", "set"}
\* What the remote capability and its client do with a call: "model_error" is a
\* fault constructing the model, before any request; "api_error" a call-level fault
\* (GoogleAPICallError); "blocked" a response whose .text raises ValueError.
Outcomes == {"text", "model_error", "api_error", "blocked"}
ResponseText == Str("generated text")

InitExec ==
  /\ proc \in EntryPoints
  /\ cred \in Credentials
  /\ pc = "start" /\ exit = 0 /\ sent = 0
  /\ call = NoExecute
  /\ dirs = {}
  /\ files = [p \in Paths |-> NoFile]
  /\ ret = None
  /\ raised = "none"
  /\ last = NoCall
  /\ ConcIdle

\* if not api_key: raise ValueError(...)
CredentialCheck(c) == c \notin {"absent", "empty"}

\* prompt_executor.py's module level: resolve the key, configure the client; with
\* no key, print the error and exit(1).
StartupExecutor ==
  /\ proc = "prompt_executor" /\ pc = "start"
  /\ IF CredentialCheck(cred) THEN pc' = "ready" /\ exit' = 0
     ELSE pc' = "exited" /\ exit' = 1
  /\ UNCHANGED <<proc, cred, sent, call, ret, raised, storeVars, concVars>>

\* A faulty variant of ExecHandler: no `except Exception' clause.
ExecHandlerNoCatchAll(exc) ==
  IF exc = "GoogleAPICallError" THEN [ret |-> None, raised |-> "none"]
  ELSE [ret |-> None, raised |-> exc]

\* except exceptions.GoogleAPICallError / except Exception: print, return None.
ExecHandler(exc) ==
  CASE exc = "GoogleAPICallError" -> [ret |-> None, raised |-> "none"]
    [] OTHER -> [ret |-> None, raised |-> "none"]

\* The try block of execute_prompt: the exception that ends it and the step that
\* raised it, whether the request was made, and the text extracted.
ExecuteBody(prompt, model, outcome) ==
  CASE outcome = "model_error" ->
         [exc |-> "Exception", at |-> "model", requested |-> FALSE, text |-> None]
    [] outcome = "api_error" ->
         [exc |-> "GoogleAPICallError", at |-> "call", requested |-> TRUE, text |-> None]
    [] outcome = "blocked" ->
         [exc |-> "ValueError", at |-> "text", requested |-> TRUE, text |-> None]
    [] OTHER -> [exc |-> "none", at |-> "none", requested |-> TRUE, text |-> ResponseText]

\* execute_prompt(prompt, model_name) of the component.
Execute(prompt, model, outcome) ==
  /\ proc = "prompt_executor" /\ pc = "ready" /\ sent < MaxSent
  /\ LET o == ExecuteBody(prompt, model, outcome)
         h == IF o.exc = "none" THEN [ret |-> o.text, raised |-> "none"] ELSE ExecHandler(o.exc)
     IN  /\ ret' = h.ret
         /\ raised' = h.raised
         /\ sent' = IF o.requested THEN sent + 1 ELSE sent
         /\ call' = [op |-> "execute", prompt |-> prompt, model |-> model,
                     outcome |-> outcome, at |-> o.at]
  /\ UNCHANGED <<proc, cred, pc, exit, storeVars, concVars>>

\* The process ends after its calls.
Finish ==
  /\ proc = "prompt_executor" /\ pc = "ready"
  /\ pc' = "exited" /\ exit' = 0
  /\ UNCHANGED <<proc, cred, sent, call, ret, raised, storeVars, concVars>>

\* main.py's module level: load_dotenv(), google_api_key = os.getenv(...); the key
\* is not tested.
StartupMain ==
  /\ proc = "main" /\ pc = "start"
  /\ pc' = "ready"
  /\ UNCHANGED <<proc, cred, exit, sent, call, ret, raised, storeVars, concVars>>

\* main.py: execute_prompt("Hello"): configure with the key (None when unset), call
\* generate_content, print response.text; an exception is not caught and ends the
\* process with a traceback.
MainExecute(outcome) ==
  /\ proc = "main" /\ pc = "ready"
  /\ LET o == ExecuteBody("Hello", "gemini-2.5-pro", outcome)
     IN  /\ ret' = None
         /\ raised' = o.exc
         /\ sent' = IF o.requested THEN sent + 1 ELSE sent
         /\ exit' = IF o.exc = "none" THEN 0 ELSE 1
         /\ call' = [op |-> "main_execute", prompt |-> "Hello", model |-> "gemini-2.5-pro",
                     outcome |-> outcome, at |-> o.at]
  /\ pc' = "exited"
  /\ UNCHANGED <<proc, cred, storeVars, concVars>>

NextExec ==
  \/ StartupExecutor
  \/ \E prompt \in Prompts, model \in Models, outcome \in Outcomes :
       Execute(prompt, model, outcome)
  \/ Finish
  \/ StartupMain
  \/ \E outcome \in Outcomes : MainExecute(outcome)

\* A process that sends prompts, from its start.
SpecExec == InitExec /\ [][NextExec]_vars

\* C7: execute_prompt never raises: it returns the response text, or None on a
\* call-level fault and on any other fault in model construction, the call or the
\* extraction of the text; the empty prompt is no exception.
C7_ExecuteContained ==
  call.op = "execute" =>
    /\ raised = "none"
    /\ (ret = None \/ ret.t = "str")
    /\ (call.at # "none") <=> (ret = None)
    /\ (call.at = "none") => (ret = ResponseText)

C7_Witness ==
  /\ call.op = "execute" /\ call.prompt = "" /\ call.outcome = "blocked"
  /\ ret = None /\ raised = "none"

\* C8: no request is made of the remote model unless a credential was resolved.
C8_CredentialFailFast == (cred # "set") => (sent = 0)
(***************************************************************************)
(* Two store_template calls on the same name and directory, interleaved    *)
(* step by step.  Each call has its own file object: its own buffer and    *)
(* its own file offset, which starts at 0 when it opens the file.          *)
(***************************************************************************)
\* The tokens a file object buffers before it writes them out.
BufSize == 2

ConcPath == <<DefaultDir, "greeting">>
\* The values yaml.dump can write.
ConcData == {v \in Data : DumpTable[v].ok}

\* A byte no call wrote: the file system fills a gap with zeros.
Hole == Tok(0, "nul", "", 0)

Min(a, b) == IF a < b THEN a ELSE b
Max(a, b) == IF a > b THEN a ELSE b

\* write(2) of chunk at offset off into a file that holds text.
WriteAt(text, off, chunk) ==
  [i \in 1..Max(Len(text), off + Len(chunk)) |->
     IF i > off /\ i <= off + Len(chunk) THEN chunk[i - off]
     ELSE IF i <= Len(text) THEN text[i]
     ELSE Hole]

InitConc ==
  /\ wdata \in [Writers -> ConcData]
  /\ wpc = [w \in Writers |-> "start"]
  /\ woff = [w \in Writers |-> 0]
  /\ wret = [w \in Writers |-> None]
  /\ lastOpen = 0
  /\ foreign = FALSE
  /\ dirs \in {{}, {DefaultDir}}
  /\ files = [p \in Paths |-> NoFile]
  /\ ret = None
  /\ raised = "none"
  /\ last = NoCall
  /\ ExecIdle

\* template_path.mkdir(parents=True, exist_ok=True)
CMkdir(w) ==
  /\ wpc[w] = "start"
  /\ dirs' = MakeDirs(dirs, ConcPath[1]).dirs
  /\ wpc' = [wpc EXCEPT ![w] = "made"]
  /\ UNCHANGED <<files, last, ret, raised, woff, wdata, wret, lastOpen, foreign, execVars>>

\* open(file_path, 'w')
COpen(w) ==
  /\ wpc[w] = "made"
  /\ files' = OpenForWrite(files, ConcPath, FALSE)
  /\ woff' = [woff EXCEPT ![w] = 0]
  /\ wpc' = [wpc EXCEPT ![w] = "open"]
  /\ lastOpen' = w
  /\ foreign' = FALSE
  /\ UNCHANGED <<dirs, last, ret, raised, wdata, wret, execVars>>

\* yaml.dump(data, f): the file object writes its buffer out at its own offset,
\* BufSize tokens at a time, the rest when the file is closed.
CWrite(w) ==
  LET doc == DumpTable[wdata[w]].text
      chunk == SubSeq(doc, woff[w] + 1, Min(woff[w] + BufSize, Len(doc)))
  IN  /\ wpc[w] = "open"
      /\ woff[w] < Len(doc)
      /\ files' = [files EXCEPT ![ConcPath] = FileOf(WriteAt(files[ConcPath].text, woff[w], chunk))]
      /\ woff' = [woff EXCEPT ![w] = woff[w] + Len(chunk)]
      /\ foreign' = (foreign \/ w # lastOpen)
      /\ UNCHANGED <<dirs, last, ret, raised, wpc, wdata, wret, lastOpen, execVars>>

\* The with block ends (the file is closed), the success is logged, return True.
CClose(w) ==
  /\ wpc[w] = "open"
  /\ woff[w] = Len(DumpTable[wdata[w]].text)
  /\ wpc' = [wpc EXCEPT ![w] = "done"]
  /\ wret' = [wret EXCEPT ![w] = PyTrue]
  /\ UNCHANGED <<dirs, files, last, ret, raised, woff, wdata, lastOpen, foreign, execVars>>

NextConc ==
  \/ \E w \in Writers : CMkdir(w)
  \/ \E w \in Writers : COpen(w)
  \/ \E w \in Writers : CWrite(w)
  \/ \E w \in Writers : CClose(w)

\* Two concurrent writers of one template.
SpecConc == InitConc /\ [][NextConc]_vars

BothReturned == \A w \in Writers : wpc[w] = "done" /\ wret[w] = PyTrue

\* C9 as claimed: once both concurrent calls have returned, the file holds exactly
\* the document of one of the two calls.
C9_OneWriterWins ==
  BothReturned => files[ConcPath].text \in {DumpTable[wdata[w]].text : w \in Writers}

\* C9 as amended: once both concurrent calls have returned, if the call that did not
\* open the file last wrote nothing after that open-and-truncate, the file holds
\* exactly the document of the call that opened it last.
C9_LastOpenerWins ==
  (BothReturned /\ ~foreign) =>
    /\ files[ConcPath].exists
    /\ files[ConcPath].text = DumpTable[wdata[lastOpen]].text

C9_Witness ==
  /\ BothReturned /\ ~foreign /\ lastOpen = 2
  /\ Len(DumpTable[wdata[1]].text) > Len(DumpTable[wdata[2]].text)
  /\ files[ConcPath].text = DumpTable[wdata[2]].text

(***************************************************************************)
(* Properties of the template store.                                       *)
(***************************************************************************)
PathOf(c) == <<c.dir, c.name>>

\* This step is a load, which no fault disturbs, of the template the last call was about.
LoadsBack == last'.op = "load" /\ PathOf(last') = PathOf(last) /\ last'.fault = "none"

IsPrefix(s, t) == Len(s) <= Len(t) /\ s = SubSeq(t, 1, Len(s))

\* C1: a load that follows a successful store(d, n) on the same directory returns a
\* value equal to d, whatever the value d that store accepted.
C1_RoundTrip ==
  [][(last.op = "store" /\ ret = PyTrue /\ LoadsBack) => ret' = last.data]_vars

\* The round trip as the code gives it: the same, for the values that hold no tuple
\* (yaml.dump tags a tuple !!python/tuple, which yaml.safe_load refuses).
RoundTripWithoutTuples ==
  [][(last.op = "store" /\ ret = PyTrue /\ LoadsBack /\ ~HasTuple(last.data))
       => ret' = last.data]_vars

\* C2: after store(d1, n) and then store(d2, n) have both succeeded on the same
\* directory, load(n) returns d2.
C2_LastWriteWins ==
  [][(last.op = "store" /\ ret = PyTrue /\ last.over /\ LoadsBack) => ret' = last.data]_vars

\* C3: load never raises: it returns the value of the document, or None on any fault
\* at any step of the call.
C3_LoadTotal ==
  last.op = "load" => (raised = "none" /\ (last.at # "none" => ret = None))

\* C4: store never raises and returns True or False; it returns False exactly when
\* a step of the call (mkdir, open, serialization, write) failed.
C4_StoreTotal ==
  last.op = "store" =>
    /\ raised = "none"
    /\ ret \in {PyTrue, PyFalse}
    /\ (ret = PyFalse) <=> (last.at # "none")
    /\ last.log = (IF ret = PyTrue THEN "info" ELSE "error")

C4_Witness ==
  /\ last.op = "store" /\ last.at = "dump" /\ last.exc = "TypeError"
  /\ ret = PyFalse /\ raised = "none"

\* C5: a store that no fault disturbs, of a representable value into a directory
\* that does not exist, creates the directory and its missing parents, returns True
\* and leaves the template's file in it.
C5_DirAutoCreate ==
  [][(last'.op = "store" /\ last'.fault = "none" /\ ~HasObject(last'.data)
        /\ last'.dir \notin dirs)
       => /\ last'.dir \in dirs'
          /\ Ancestors(last'.dir) \subseteq dirs'
          /\ ret' = PyTrue
          /\ files'[PathOf(last')].exists]_vars

C5_Witness ==
  /\ last.op = "store" /\ last.created = {"new", "new/sub"} /\ last.dir = "new/sub"
  /\ ret = PyTrue /\ files[PathOf(last)].exists /\ {"new", "new/sub"} \subseteq dirs

\* C6: a store of a value that contains a reference to itself returns (True or
\* False, nothing raised), and when no fault disturbs it the result is True and the
\* document holds the reference as an alias to an anchored node.
C6_CycleHandling ==
  (last.op = "store" /\ IsCyclic(last.data)) =>
    /\ raised = "none"
    /\ ret \in {PyTrue, PyFalse}
    /\ last.fault = "none" =>
         /\ ret = PyTrue
         /\ LET text == files[PathOf(last)].text
            IN  /\ \E i \in 1..Len(text) : text[i].k = "alias"
                /\ \E i \in 1..Len(text) : text[i].a # 0 /\ text[i].k = "map"

C6_Witness ==
  /\ last.op = "store" /\ last.data = Circular /\ last.fault = "none" /\ ret = PyTrue
  /\ files[PathOf(last)].text = <<Tok(0, "map", "", 1), Tok(1, "plain", "a", 0), Tok(1, "alias", "", 1)>>

\* C10 as claimed: a store that returns False leaves every template file as it was.
C10_FailedStoreChangesNothing ==
  [][(last'.op = "store" /\ ret' = PyFalse) => files' = files]_vars

\* C10 as amended: a store that returns False because mkdir or open failed leaves
\* every template file as it was; one that fails later (serialization, write) leaves
\* the other files as they were and its own file existing with a strict prefix of
\* the document (nothing, when serialization failed).
C10_FailedStoreEffect ==
  [][(last'.op = "store" /\ ret' = PyFalse) =>
       IF last'.at \in {"mkdir", "open"} THEN files' = files
       ELSE LET p == PathOf(last')
                doc == DumpTable[last'.data]
            IN  /\ \A q \in Paths \ {p} : files'[q] = files[q]
                /\ files'[p].exists
                /\ IsPrefix(files'[p].text, doc.text)
                /\ doc.ok => files'[p].text # doc.text]_vars

C10_Witness ==
  /\ last.op = "store" /\ ret = PyFalse /\ last.at = "open"
  /\ files[PathOf(last)].exists
  /\ files[PathOf(last)].text = DumpTable[Greeting].text
  /\ last.data # Greeting
====
